---------------------------- MODULE Spec2Model ----------------------------
(***************************************************************************)
(* State-machine model of the IntelliX.AI test-case generator backend:     *)
(*   backend/app/main.py          the request handlers and the generation  *)
(*                                pipeline (retry, backoff, JSON           *)
(*                                extraction, response validation)         *)
(*   backend/app/vector_store.py  the vector store (the model load loop,   *)
(*                                the collection's creation, point         *)
(*                                addressing by hash(jira_id), upsert,     *)
(*                                retrieve, search)                        *)
(*                                                                         *)
(* Texts are sequences of tokens.  "[" "]" "{" "}" "," are the JSON        *)
(* punctuation characters, "s" is a bracket-free JSON scalar (a string or  *)
(* a number), "w" is bracket-free commentary that is not JSON ("Sure!"),   *)
(* and a key token such as "title:" is an object key with its colon.       *)
(***************************************************************************)
EXTENDS Integers, Sequences, FiniteSets, TLC

VARIABLES
    hashSeed,       \* the running process's string-hash seed (PYTHONHASHSEED)
    collection,     \* the Qdrant collection "test_cases": point id -> payload
    last_upsert,    \* the payload of the last upsert that succeeded (None: none yet)
    req,            \* request slot -> the state of the handler running there
    response_text,  \* parsing alone: the raw model output
    parse_out,      \* parsing alone: what the extraction made of it
    boot,           \* the start of the process: the model load loop, VectorStore()
    qdrant          \* the Qdrant server: whether it lists "test_cases", creates done

vars == <<hashSeed, collection, last_upsert, req, response_text, parse_out, boot, qdrant>>

---------------------------------------------------------------------------
(* Bounds of the model *)

NumSeeds == 2        \* hash seeds a process start can draw
MaxTextLen == 5      \* tokens in an enumerated raw model output

---------------------------------------------------------------------------
(* Python values *)

None == [none |-> TRUE]

JsonScalar == [t |-> "s"]
JsonArray(items) == [t |-> "a", items |-> items]
JsonObject(keys) == [t |-> "o", keys |-> keys]

KeyTokens == {"test_id:", "title:", "steps:", "expected_result:"}

\* str.find: the 0-based index of the first occurrence, -1 when there is none
find(text, ch) ==
    IF \E i \in 1..Len(text) : text[i] = ch
    THEN (CHOOSE i \in 1..Len(text) :
            text[i] = ch /\ \A j \in 1..(i - 1) : text[j] # ch) - 1
    ELSE -1

\* str.rfind: the 0-based index of the last occurrence, -1 when there is none
rfind(text, ch) ==
    IF \E i \in 1..Len(text) : text[i] = ch
    THEN (CHOOSE i \in 1..Len(text) :
            text[i] = ch /\ \A j \in (i + 1)..Len(text) : text[j] # ch) - 1
    ELSE -1

\* text[start:end] for 0 <= start and 0 <= end (0-based, end exclusive)
Slice(text, start, end) ==
    LET hi == IF end > Len(text) THEN Len(text) ELSE end
    IN  IF start >= hi THEN <<>> ELSE SubSeq(text, start + 1, hi)

(* json.loads on a token sequence: a recursive-descent parse of one JSON    *)
(* value followed by the end of the text.  A parse step yields              *)
(* [ok, val, next]: whether a value starts at position i, the value, and    *)
(* the position after it.                                                   *)
JsonFail == [ok |-> FALSE, val |-> None, next |-> 0]
JsonOk(v, n) == [ok |-> TRUE, val |-> v, next |-> n]

RECURSIVE JsonValue(_, _)
RECURSIVE JsonElements(_, _, _)
RECURSIVE JsonMembers(_, _, _)

JsonValue(t, i) ==
    IF i > Len(t) THEN JsonFail
    ELSE IF t[i] = "s" THEN JsonOk(JsonScalar, i + 1)
    ELSE IF t[i] = "[" THEN
        IF i + 1 <= Len(t) /\ t[i + 1] = "]"
        THEN JsonOk(JsonArray(<<>>), i + 2)
        ELSE JsonElements(t, i + 1, <<>>)
    ELSE IF t[i] = "{" THEN
        IF i + 1 <= Len(t) /\ t[i + 1] = "}"
        THEN JsonOk(JsonObject({}), i + 2)
        ELSE JsonMembers(t, i + 1, {})
    ELSE JsonFail

JsonElements(t, i, acc) ==
    LET r == JsonValue(t, i)
    IN  IF ~r.ok \/ r.next > Len(t) THEN JsonFail
        ELSE IF t[r.next] = "," THEN JsonElements(t, r.next + 1, Append(acc, r.val))
        ELSE IF t[r.next] = "]" THEN JsonOk(JsonArray(Append(acc, r.val)), r.next + 1)
        ELSE JsonFail

JsonMembers(t, i, keys) ==
    IF i > Len(t) \/ t[i] \notin KeyTokens THEN JsonFail
    ELSE LET r == JsonValue(t, i + 1)
         IN  IF ~r.ok \/ r.next > Len(t) THEN JsonFail
             ELSE IF t[r.next] = "," THEN JsonMembers(t, r.next + 1, keys \cup {t[i]})
             ELSE IF t[r.next] = "}" THEN JsonOk(JsonObject(keys \cup {t[i]}), r.next + 1)
             ELSE JsonFail

json_loads(t) ==
    LET r == JsonValue(t, 1)
    IN  IF r.ok /\ r.next = Len(t) + 1 THEN r ELSE JsonFail

(* Lines 181-211 of generate_test_cases: the bracket extraction.  The       *)
(* outcome is the parsed list, or the HTTPException(500) that the handler   *)
(* at line 204 makes of the ValueError and of json.loads' JSONDecodeError.  *)
ParseError == [kind |-> "HTTPException", status_code |-> 500,
               detail |-> "Failed to parse LLM response"]
Parsed(v) == [kind |-> "return", test_cases |-> v]

\* a faulty variant: the end of the slice taken at the first "]", not the last
json_end_first(text) == find(text, "]") + 1

json_end_of(text) == rfind(text, "]") + 1

ExtractTestCases(text) ==
    LET json_start == find(text, "[")
        json_end == json_end_of(text)
    IN  IF json_start >= 0 /\ json_end > 0
        THEN LET r == json_loads(Slice(text, json_start, json_end))
             IN  IF r.ok THEN Parsed(r.val.items) ELSE ParseError
        ELSE ParseError

---------------------------------------------------------------------------
(* Parsing alone: every raw output of at most MaxTextLen tokens *)

ParseAlphabet == {"[", "]", ",", "{", "}", "s", "w"}

Texts == UNION {[1..n -> ParseAlphabet] : n \in 0..MaxTextLen}

Pending == [kind |-> "pending"]

---------------------------------------------------------------------------
(* The vector store (vector_store.py) *)

HashBits == 2        \* width of the modelled str hash (CPython: 64)

Tickets == {"PROJ-1", "PROJ-2"}

Seeds == 0..(NumSeeds - 1)

Code(s) == IF s = "PROJ-1" THEN 1 ELSE 2

(* hash(str) of CPython: a keyed hash of the string, the key drawn per      *)
(* process at interpreter start (hash randomization), the result a signed   *)
(* HashBits-bit integer.  The arithmetic stands for the keyed hash: what    *)
(* it keeps is that the value is a function of the seed and the string,     *)
(* that it differs between seeds, that it is signed, and that two strings   *)
(* may have one hash under a seed (here the two tickets, under seed 1).     *)
PyHash(seed, s) ==
    LET u == (Code(s) * (seed + 3) + seed) % (2 ^ HashBits)
    IN  IF u >= 2 ^ (HashBits - 1) THEN u - 2 ^ HashBits ELSE u

\* the 2**63 of `hash(jira_id) % (2**63)`, at the modelled width
IdSpace == 2 ^ (HashBits - 1)

PointIds == 0..(IdSpace - 1)

\* point_id = hash(jira_id) % (2**63), in a process whose hash seed is `seed`
point_id_in(seed, jira_id) == PyHash(seed, jira_id) % IdSpace

point_id(jira_id) == point_id_in(hashSeed, jira_id)

Payload(jira_id, description, test_cases) ==
    [jira_id |-> jira_id, description |-> description, test_cases |-> test_cases]

\* a faulty variant: a point already there is kept
UpsertPoint_keep(coll, id, payload) ==
    [k \in (DOMAIN coll) \cup {id} |-> IF k \in DOMAIN coll THEN coll[k] ELSE payload]

\* client.upsert of the one point: it overwrites the point with the same id
UpsertPoint(coll, id, payload) ==
    [k \in (DOMAIN coll) \cup {id} |-> IF k = id THEN payload ELSE coll[k]]

\* client.retrieve(ids=[id]): the list of the points found
RetrievePoints(coll, id) ==
    IF id \in DOMAIN coll THEN <<coll[id]>> ELSE <<>>

\* an exception that leaves retrieve_test_case, as its caller sees it
StorageError == [raised |-> "storage"]

\* a faulty variant: an empty answer of the client raised as an error
FirstPayload_raise(points) ==
    IF Len(points) > 0 THEN points[1] ELSE StorageError

\* lines 103-105: the payload of the first point, None when there is none
FirstPayload(points) ==
    IF Len(points) > 0 THEN points[1] ELSE None

(* retrieve_test_case: the payload of the point at hash(jira_id) % 2**63,   *)
(* None when there is none, and None as well when the client raises         *)
(* (`reachable` false): the except clause prints and returns None.          *)
retrieve_test_case(jira_id, reachable) ==
    IF reachable
    THEN FirstPayload(RetrievePoints(collection, point_id(jira_id)))
    ELSE None

\* whether the collection holds a point stored for this ticket
HoldsRecord(jira_id) ==
    \E k \in DOMAIN collection : collection[k].jira_id = jira_id

EmptyCollection == [k \in {} |-> None]

---------------------------------------------------------------------------
(* The generation pipeline and the handlers (main.py) *)

max_retries == 3
retry_delay == 2

(* Spec runs one request at a time, in one slot; the actions range over    *)
(* DOMAIN req, whatever slots Init gives.                                   *)
OneSlot == {1}

Reqs == DOMAIN req

Credentials == {"missing", "test", "real"}

MockDescription == "mock description"
JiraDescriptions == {"d1"}

RequiredFields == {"test_id:", "title:", "steps:", "expected_result:"}

FullCase == <<"{", "test_id:", "s", ",", "title:", "s", ",", "steps:", "[", "s", "]",
              ",", "expected_result:", "s", "}">>
PartialCase == <<"{", "test_id:", "s", ",", "title:", "s", ",", "steps:", "[", "s", "]", "}">>

\* raw outputs the model endpoint answers with (status 200)
ModelTexts == {
    <<"w", "[">> \o FullCase \o <<"]", "w">>,     \* the array, with commentary around
    <<"[">> \o PartialCase \o <<"]">>,            \* an entry without expected_result
    <<"w">>,                                      \* no brackets at all
    FullCase }                                    \* a bare object: the first "[" is of its steps

OllamaOutcomes == {"status", "timeout", "exception"}

NoError == ""

IdleReq ==
    [pc |-> "idle", endpoint |-> "", jira_id |-> "", creds |-> "",
     retrieve_raised |-> FALSE, stored_case |-> None,
     query |-> "", limit |-> 0, search_result |-> <<>>,
     description |-> "", test_cases |-> <<>>, text |-> <<>>,
     retry_count |-> 0, jira_calls |-> 0, ollama_calls |-> 0,
     outcomes |-> <<>>, sleeps |-> <<>>,
     background |-> "none", status_code |-> 0, error |-> NoError,
     response |-> None]

\* TestCase(BaseModel): the four fields are required
ValidTestCase(tc) == tc.t = "o" /\ RequiredFields \subseteq tc.keys

\* TestCaseResponse(jira_id=, description=, test_cases=): pydantic validates
ValidResponse(description, test_cases) ==
    \A i \in 1..Len(test_cases) : ValidTestCase(test_cases[i])

TestCaseResponse(jira_id, description, test_cases) ==
    [jira_id |-> jira_id, description |-> description, test_cases |-> test_cases]

\* a faulty variant: the store scheduled on the failure path too, and run
HandlerRaise_persist(q, cause) ==
    [q EXCEPT !.pc = "done", !.status_code = 500, !.error = cause,
              !.background = "scheduled"]

(* except Exception (lines 336-340): whatever was raised becomes            *)
(* HTTPException(500).  The BackgroundTasks of a request whose handler      *)
(* raised are never run.                                                    *)
HandlerRaise(q, cause) ==
    [q EXCEPT !.pc = "done", !.status_code = 500, !.error = cause,
              !.background = IF @ = "scheduled" THEN "dropped" ELSE @]

HandlerReturn(q, resp) ==
    [q EXCEPT !.pc = "done", !.status_code = 200, !.response = resp]

\* a faulty variant: the delay computed from the count before its increment
BackoffDelay_early(retry_count) == retry_delay * (2 ^ (retry_count - 1))

\* asyncio.sleep(retry_delay * (2 ** retry_count)), retry_count already incremented
BackoffDelay(retry_count) == retry_delay * (2 ^ retry_count)

\* the top of `while retry_count < max_retries`: post, or fall out and return None
LoopTop(q) ==
    IF q.retry_count < max_retries
    THEN [q EXCEPT !.pc = "post_ollama", !.ollama_calls = @ + 1]
    ELSE HandlerRaise(q, "returned_none")

\* a faulty variant: the last retry taken to be the one after the budget
OnLastRetry_late(retry_count) == retry_count = max_retries

\* `if retry_count == max_retries - 1`
OnLastRetry(retry_count) == retry_count = max_retries - 1

\* a faulty variant: the last retry not told apart, counted and slept like the others
RetryOrRaise_count(q, cause) ==
    [q EXCEPT !.retry_count = @ + 1,
              !.sleeps = Append(@, BackoffDelay(q.retry_count + 1)),
              !.pc = "sleep"]

(* a non-200 status (lines 165-178) or ReadTimeout/ConnectTimeout (lines    *)
(* 213-225): raise on the last retry, else count, sleep and go round        *)
RetryOrRaise(q, cause) ==
    IF OnLastRetry(q.retry_count)
    THEN HandlerRaise(q, cause)
    ELSE [q EXCEPT !.retry_count = @ + 1,
                   !.sleeps = Append(@, BackoffDelay(q.retry_count + 1)),
                   !.pc = "sleep"]

\* a faulty variant: any other exception retried like a timeout
OnOtherException_retry(q) == RetryOrRaise(q, "ollama_exception")

\* except Exception (lines 227-234): any other exception is raised at once
OnOtherException(q) == HandlerRaise(q, "ollama_exception")

\* a faulty variant: the store scheduled stays scheduled when the response fails
ScheduleAndRespond_kept(q, test_cases) ==
    LET s == [q EXCEPT !.test_cases = test_cases, !.background = "scheduled"]
    IN  IF ValidResponse(q.description, test_cases)
        THEN HandlerReturn(s, TestCaseResponse(q.jira_id, q.description, test_cases))
        ELSE [s EXCEPT !.pc = "done", !.status_code = 500, !.error = "validation"]

(* lines 321-334: schedule store_test_case, then build the response (which  *)
(* validates the test cases)                                                *)
ScheduleAndRespond(q, test_cases) ==
    LET s == [q EXCEPT !.test_cases = test_cases, !.background = "scheduled"]
    IN  IF ValidResponse(q.description, test_cases)
        THEN HandlerReturn(s, TestCaseResponse(q.jira_id, q.description, test_cases))
        ELSE HandlerRaise(s, "validation")

\* a faulty variant: a text that does not parse retried like an error status
OnOllamaText_retry(q, text) ==
    LET out == ExtractTestCases(text)
    IN  IF out.kind = "return"
        THEN ScheduleAndRespond(q, out.test_cases)
        ELSE RetryOrRaise(q, "parse")

(* status 200: extract the test cases (lines 181-211), then lines 319-334.  *)
(* The HTTPException of the parse error is raised inside the try of the     *)
(* loop, caught at line 227 and raised again: the loop is left.             *)
OnOllamaText(q, text) ==
    LET out == ExtractTestCases(text)
    IN  IF out.kind = "return"
        THEN ScheduleAndRespond(q, out.test_cases)
        ELSE HandlerRaise(q, "parse")

---------------------------------------------------------------------------
(* The semantic search (vector_store.py lines 110-124) *)

MaxLimit == 2        \* largest `limit` a search request carries

Queries == {"login", "export"}
Limits == 1..MaxLimit

(* model.encode: the embedding, here of one coordinate.  A point's vector   *)
(* is the embedding of f"{description} {json.dumps(test_cases)}" (lines     *)
(* 69-70), a function of its payload.                                       *)
EmbedQuery(query) == IF query = "login" THEN 0 ELSE 1

PointVector(payload) ==
    (IF payload.description = MockDescription THEN 0 ELSE 2)
        + (IF Len(payload.test_cases) > 1 THEN 1 ELSE 0)

\* the similarity of two vectors (Distance.COSINE): the closer, the larger
Similarity(u, v) == IF u >= v THEN v - u ELSE u - v

(* client.search(query_vector, limit): the answers the server may give for *)
(* limit >= 1, the ids of the min(limit, number of points) nearest points, *)
(* closest first, points equally near in either order.                     *)
SearchAnswers(coll, query_vector, limit) ==
    LET ids == DOMAIN coll
        n == IF Cardinality(ids) < limit THEN Cardinality(ids) ELSE limit
        sim(id) == Similarity(query_vector, PointVector(coll[id]))
    IN  {a \in [1..n -> ids] :
            /\ \A i, j \in 1..n : i # j => a[i] # a[j]
            /\ \A i, j \in 1..n : i < j => sim(a[i]) >= sim(a[j])
            /\ \A id \in ids : (\A i \in 1..n : a[i] # id)
                                   => \A i \in 1..n : sim(a[i]) >= sim(id)}

\* a faulty variant: the results appended at the front
PayloadsOf_reversed(coll, search_result) ==
    [i \in 1..Len(search_result) |->
        coll[search_result[Len(search_result) + 1 - i]]]

\* lines 120-124: the payloads of the points found, in their order
PayloadsOf(coll, search_result) ==
    [i \in 1..Len(search_result) |-> coll[search_result[i]]]

---------------------------------------------------------------------------
(* The start of the process: importing app.vector_store runs the model     *)
(* load loop (vector_store.py lines 14-35), then main.py line 41 builds    *)
(* the VectorStore.                                                         *)

MAX_RETRIES == 3

\* the Qdrant server before anything was created on it
NoCollections == [listed |-> FALSE, creates |-> 0]

(* pc: "load" (SentenceTransformer(...) running), "wait" (time.sleep),      *)
(* "construct" (the loop left, VectorStore() not yet run), "up" (serving),  *)
(* "dead" (the import raised).  loads counts the load attempts and waits    *)
(* lists the sleeps of the start in progress.                               *)
BootStart ==
    [pc |-> "load", attempt |-> 0, loads |-> 0, waits |-> <<>>, model |-> FALSE,
     vector_store |-> FALSE, error |-> NoError]

\* a faulty variant: the wait computed from the attempt index itself
WaitTime_index(attempt) == attempt * 5

\* wait_time = (attempt + 1) * 5
WaitTime(attempt) == (attempt + 1) * 5

\* model = SentenceTransformer(...) returned: break
ModelLoaded(b) == [b EXCEPT !.loads = @ + 1, !.model = TRUE, !.pc = "construct"]

\* the except clause: sleep and go round, or raise on the last attempt
ModelLoadFailed(b) ==
    IF b.attempt < MAX_RETRIES - 1
    THEN [b EXCEPT !.loads = @ + 1, !.waits = Append(@, WaitTime(b.attempt)),
                   !.pc = "wait"]
    ELSE [b EXCEPT !.loads = @ + 1, !.pc = "dead", !.error = "model_load"]

\* client.create_collection: the server refuses a name it already lists
create_collection(qd, coll) ==
    IF qd.listed
    THEN [qdrant |-> qd, collection |-> coll, error |-> "create_conflict"]
    ELSE [qdrant |-> [listed |-> TRUE, creates |-> qd.creates + 1],
          collection |-> EmptyCollection, error |-> NoError]

\* a faulty variant: the listing not consulted
ListsCollection_never(qd) == FALSE

\* `self.collection_name in collection_names`
ListsCollection(qd) == qd.listed

create_collection_if_not_exists(qd, coll) ==
    IF ~ListsCollection(qd)
    THEN create_collection(qd, coll)
    ELSE [qdrant |-> qd, collection |-> coll, error |-> NoError]

(* VectorStore() returned: the module is imported, the app serves.  What    *)
(* the load loop left behind (attempt, and the counts kept of it here) is  *)
(* read by nothing from here on and is dropped.                            *)
VectorStoreUp(b) ==
    [b EXCEPT !.pc = "up", !.vector_store = TRUE, !.attempt = 0, !.loads = 0,
              !.waits = <<>>]

---------------------------------------------------------------------------
(* The actions *)

Init ==
    /\ hashSeed \in Seeds
    /\ collection = EmptyCollection
    /\ last_upsert = None
    /\ req = [r \in OneSlot |-> IdleReq]
    /\ response_text = <<>>
    /\ parse_out = Pending
    /\ boot = BootStart
    /\ qdrant = NoCollections

\* one attempt of the load loop ends
LoadModel ==
    /\ boot.pc = "load"
    /\ \E ok \in BOOLEAN :
          boot' = IF ok THEN ModelLoaded(boot) ELSE ModelLoadFailed(boot)
    /\ UNCHANGED <<hashSeed, collection, last_upsert, req, response_text, parse_out, qdrant>>

\* time.sleep(wait_time) returns: the next attempt of `for attempt in range(3)`
LoadWait ==
    /\ boot.pc = "wait"
    /\ boot' = [boot EXCEPT !.attempt = @ + 1, !.pc = "load"]
    /\ UNCHANGED <<hashSeed, collection, last_upsert, req, response_text, parse_out, qdrant>>

(* vector_store = VectorStore(): get_collections raises when the server     *)
(* cannot be reached, else _create_collection_if_not_exists.                *)
ConstructVectorStore ==
    /\ boot.pc = "construct"
    /\ \E reachable \in BOOLEAN :
          IF reachable
          THEN LET out == create_collection_if_not_exists(qdrant, collection)
               IN  /\ qdrant' = out.qdrant
                   /\ collection' = out.collection
                   /\ boot' = IF out.error = NoError
                              THEN VectorStoreUp(boot)
                              ELSE [boot EXCEPT !.pc = "dead", !.error = out.error]
          ELSE /\ boot' = [boot EXCEPT !.pc = "dead", !.error = "qdrant_unreachable"]
               /\ UNCHANGED <<qdrant, collection>>
    /\ UNCHANGED <<hashSeed, last_upsert, req, response_text, parse_out>>

\* a faulty variant: the record found is stored again by the request
CacheHit_restore(q, stored_case) ==
    HandlerReturn([q EXCEPT !.description = stored_case.description,
                            !.test_cases = stored_case.test_cases,
                            !.background = "scheduled"],
                  TestCaseResponse(q.jira_id, stored_case.description,
                                   stored_case.test_cases))

(* lines 279-285: the record found is returned under the ticket asked for  *)
(* (TestCaseResponse validates its test cases)                             *)
CacheHit(q, stored_case) ==
    IF ValidResponse(stored_case.description, stored_case.test_cases)
    THEN HandlerReturn(q, TestCaseResponse(q.jira_id, stored_case.description,
                                           stored_case.test_cases))
    ELSE HandlerRaise(q, "validation")

(* generate_test_case from its entry to its first await (lines 266-313):    *)
(* the cache check, then the mock description of the test sentinel or the   *)
(* credentials check of fetch_jira_description.  An exception leaving       *)
(* retrieve_test_case would reach the except clause of lines 336-340.       *)
GenerateEntry(q0, jira_id, creds, reachable) ==
    LET stored_case == retrieve_test_case(jira_id, reachable)
        q == [q0 EXCEPT !.pc = "entered", !.endpoint = "generate-test-case",
                        !.jira_id = jira_id, !.creds = creds,
                        !.retrieve_raised = ~reachable,
                        !.stored_case = stored_case]
    IN  IF stored_case = StorageError
        THEN HandlerRaise(q, "storage")
        ELSE IF stored_case # None
        THEN CacheHit(q, stored_case)
        ELSE IF creds = "test"
        THEN LoopTop([q EXCEPT !.description = MockDescription])
        ELSE IF creds = "missing"
        THEN HandlerRaise(q, "credentials")
        ELSE [q EXCEPT !.pc = "get_jira", !.jira_calls = @ + 1]

ReceiveGenerateOf(r, CredSet, ReachSet) ==
    /\ boot.pc = "up"
    /\ req[r].pc = "idle"
    /\ \E jira_id \in Tickets, creds \in CredSet, reachable \in ReachSet :
          req' = [req EXCEPT ![r] = GenerateEntry(req[r], jira_id, creds, reachable)]
    /\ UNCHANGED <<hashSeed, collection, last_upsert, response_text, parse_out, boot, qdrant>>

(* fetch_jira_description after its await (lines 100-108), then lines       *)
(* 314-318: len(description), which raises on a null description.           *)
JiraAnswered(q, outcome, description) ==
    IF outcome = "200" THEN LoopTop([q EXCEPT !.description = description])
    ELSE IF outcome = "null" THEN HandlerRaise(q, "description_none")
    ELSE IF outcome = "status" THEN HandlerRaise(q, "jira_status")
    ELSE HandlerRaise(q, "jira_exception")

JiraOutcomes == {"200", "null", "status", "exception"}

JiraRespondsOf(r, OutcomeSet) ==
    /\ req[r].pc = "get_jira"
    /\ \E outcome \in OutcomeSet, d \in JiraDescriptions :
          req' = [req EXCEPT ![r] = JiraAnswered(req[r], outcome, d)]
    /\ UNCHANGED <<hashSeed, collection, last_upsert, response_text, parse_out, boot, qdrant>>

\* the model endpoint's call ends without a 200: lines 165-178 and 213-234
OllamaFailed(q0, outcome) ==
    LET q == [q0 EXCEPT !.outcomes = Append(@, outcome)]
    IN  IF outcome = "status" THEN RetryOrRaise(q, "ollama_status")
        ELSE IF outcome = "timeout" THEN RetryOrRaise(q, "ollama_timeout")
        ELSE OnOtherException(q)

OllamaFails(r) ==
    /\ req[r].pc = "post_ollama"
    /\ \E outcome \in OllamaOutcomes :
          req' = [req EXCEPT ![r] = OllamaFailed(req[r], outcome)]
    /\ UNCHANGED <<hashSeed, collection, last_upsert, response_text, parse_out, boot, qdrant>>

OllamaAnswersOf(r, TextSet) ==
    /\ req[r].pc = "post_ollama"
    /\ \E text \in TextSet :
          req' = [req EXCEPT ![r] =
                     OnOllamaText([req[r] EXCEPT !.outcomes = Append(@, "200"),
                                                 !.text = text], text)]
    /\ UNCHANGED <<hashSeed, collection, last_upsert, response_text, parse_out, boot, qdrant>>

\* asyncio.sleep returns: back to the top of the loop
WakeUp(r) ==
    /\ req[r].pc = "sleep"
    /\ req' = [req EXCEPT ![r] = LoopTop(req[r])]
    /\ UNCHANGED <<hashSeed, collection, last_upsert, response_text, parse_out, boot, qdrant>>

(* The background task, run once the response is sent: store_test_case.     *)
(* The embedding or the upsert may raise (`ok` false); nothing awaits it.   *)
\* a faulty variant: the upsert awaited, its failure turned into the response
StoreDone_awaited(q, ok) ==
    IF ok THEN [q EXCEPT !.background = "stored"]
    ELSE [q EXCEPT !.background = "failed", !.status_code = 500,
                   !.error = "storage", !.response = None]

StoreDone(q, ok) == [q EXCEPT !.background = IF ok THEN "stored" ELSE "failed"]

\* a faulty variant: a ticket stored before gets a point of its own again
store_test_case_fresh(coll, jira_id, description, test_cases) ==
    UpsertPoint(coll,
                IF point_id(jira_id) \in DOMAIN coll
                THEN (point_id(jira_id) + 1) % IdSpace
                ELSE point_id(jira_id),
                Payload(jira_id, description, test_cases))

store_test_case(coll, jira_id, description, test_cases) ==
    UpsertPoint(coll, point_id(jira_id), Payload(jira_id, description, test_cases))

RunBackgroundTaskOf(r, OkSet) ==
    /\ req[r].pc = "done"
    /\ req[r].background = "scheduled"
    /\ \E ok \in OkSet :
          /\ req' = [req EXCEPT ![r] = StoreDone(req[r], ok)]
          /\ collection' = IF ok
                THEN store_test_case(collection, req[r].jira_id, req[r].description,
                                     req[r].test_cases)
                ELSE collection
          /\ last_upsert' = IF ok
                THEN Payload(req[r].jira_id, req[r].description, req[r].test_cases)
                ELSE last_upsert
    /\ UNCHANGED <<hashSeed, response_text, parse_out, boot, qdrant>>

(* fetch_stored_case (lines 359-371): no await, one step; an exception      *)
(* leaving retrieve_test_case would be the framework's 500                  *)
FetchStored(q0, jira_id, reachable) ==
    LET stored_case == retrieve_test_case(jira_id, reachable)
        q == [q0 EXCEPT !.pc = "entered", !.endpoint = "fetch-stored-case",
                        !.jira_id = jira_id, !.retrieve_raised = ~reachable,
                        !.stored_case = stored_case]
    IN  IF stored_case = StorageError
        THEN [q EXCEPT !.pc = "done", !.status_code = 500, !.error = "storage"]
        ELSE IF stored_case = None
        THEN [q EXCEPT !.pc = "done", !.status_code = 404, !.error = "not_found"]
        ELSE IF ValidResponse(stored_case.description, stored_case.test_cases)
        THEN HandlerReturn(q, TestCaseResponse(jira_id, stored_case.description,
                                               stored_case.test_cases))
        ELSE [q EXCEPT !.pc = "done", !.status_code = 500, !.error = "validation"]

ReceiveFetchStoredOf(r, ReachSet) ==
    /\ boot.pc = "up"
    /\ req[r].pc = "idle"
    /\ \E jira_id \in Tickets, reachable \in ReachSet :
          req' = [req EXCEPT ![r] = FetchStored(req[r], jira_id, reachable)]
    /\ UNCHANGED <<hashSeed, collection, last_upsert, response_text, parse_out, boot, qdrant>>

(* search_test_cases (lines 373-381) over search_similar_test_cases: no     *)
(* await and no try, an exception of the client is the framework's 500     *)
SearchEntry(q0, query, limit, search_result, reachable) ==
    LET q == [q0 EXCEPT !.pc = "entered", !.endpoint = "search-test-cases",
                        !.query = query, !.limit = limit]
        results == PayloadsOf(collection, search_result)
    IN  IF ~reachable
        THEN [q EXCEPT !.pc = "done", !.status_code = 500, !.error = "storage"]
        ELSE HandlerReturn([q EXCEPT !.search_result = search_result],
                 IF results = <<>>
                 THEN [message |-> "No matching test cases found", results |-> <<>>]
                 ELSE [results |-> results])

ReceiveSearchOf(r, QuerySet, LimitSet, ReachSet) ==
    /\ boot.pc = "up"
    /\ req[r].pc = "idle"
    /\ \E query \in QuerySet, limit \in LimitSet, reachable \in ReachSet :
          \E search_result \in SearchAnswers(collection, EmbedQuery(query), limit) :
             req' = [req EXCEPT ![r] =
                        SearchEntry(req[r], query, limit, search_result, reachable)]
    /\ UNCHANGED <<hashSeed, collection, last_upsert, response_text, parse_out, boot, qdrant>>

\* a finished request leaves its slot
Forget(r) ==
    /\ req[r].pc = "done"
    /\ req[r].background # "scheduled"
    /\ req' = [req EXCEPT ![r] = IdleReq]
    /\ UNCHANGED <<hashSeed, collection, last_upsert, response_text, parse_out, boot, qdrant>>

(* The process is restarted: the interpreter draws a hash seed, the         *)
(* requests in flight and the background tasks not yet run are gone, the    *)
(* Qdrant collection (another process) stays.                               *)
Restart ==
    /\ hashSeed' \in Seeds
    /\ req' = [r \in DOMAIN req |-> IdleReq]
    /\ boot' = BootStart
    /\ UNCHANGED <<collection, last_upsert, response_text, parse_out, qdrant>>

Next ==
    \/ LoadModel
    \/ LoadWait
    \/ ConstructVectorStore
    \/ \E r \in Reqs : ReceiveGenerateOf(r, Credentials, BOOLEAN)
    \/ \E r \in Reqs : JiraRespondsOf(r, JiraOutcomes)
    \/ \E r \in Reqs : OllamaFails(r)
    \/ \E r \in Reqs : OllamaAnswersOf(r, ModelTexts)
    \/ \E r \in Reqs : WakeUp(r)
    \/ \E r \in Reqs : RunBackgroundTaskOf(r, BOOLEAN)
    \/ \E r \in Reqs : ReceiveFetchStoredOf(r, BOOLEAN)
    \/ \E r \in Reqs : ReceiveSearchOf(r, Queries, Limits, BOOLEAN)
    \/ \E r \in Reqs : Forget(r)
    \/ Restart

Spec == Init /\ [][Next]_vars

---------------------------------------------------------------------------
(* Two requests at a time, in a process that is up and whose surroundings  *)
(* all work: the store is reached and every upsert succeeds, the tracker   *)
(* answers 200, the model endpoint answers with a text that parses and     *)
(* validates.                                                               *)

TwoSlots == {1, 2}

GoodTexts ==
    {text \in ModelTexts :
        LET out == ExtractTestCases(text)
        IN  out.kind = "return" /\ ValidResponse("", out.test_cases)}

InitRace ==
    /\ hashSeed \in Seeds
    /\ collection = EmptyCollection
    /\ last_upsert = None
    /\ req = [r \in TwoSlots |-> IdleReq]
    /\ response_text = <<>>
    /\ parse_out = Pending
    /\ boot = VectorStoreUp(ModelLoaded(BootStart))
    /\ qdrant = [listed |-> TRUE, creates |-> 1]

NextRace ==
    \/ \E r \in Reqs : ReceiveGenerateOf(r, {"test", "real"}, {TRUE})
    \/ \E r \in Reqs : JiraRespondsOf(r, {"200"})
    \/ \E r \in Reqs : OllamaAnswersOf(r, GoodTexts)
    \/ \E r \in Reqs : RunBackgroundTaskOf(r, {TRUE})
    \/ \E r \in Reqs : ReceiveFetchStoredOf(r, {TRUE})
    \/ \E r \in Reqs : ReceiveSearchOf(r, Queries, Limits, {TRUE})
    \/ \E r \in Reqs : Forget(r)

SpecRace == InitRace /\ [][NextRace]_vars

---------------------------------------------------------------------------
(* Parsing alone *)

InitParse ==
    /\ hashSeed = 0
    /\ collection = EmptyCollection
    /\ last_upsert = None
    /\ req = [r \in OneSlot |-> IdleReq]
    /\ response_text \in Texts
    /\ parse_out = Pending
    /\ boot = BootStart
    /\ qdrant = NoCollections

ParseStep ==
    /\ parse_out = Pending
    /\ parse_out' = ExtractTestCases(response_text)
    /\ UNCHANGED <<hashSeed, collection, last_upsert, req, response_text, boot, qdrant>>

NextParse == ParseStep

SpecParse == InitParse /\ [][NextParse]_vars

---------------------------------------------------------------------------
(* The claims *)

\* a step in which slot r takes a request of this endpoint
Enters(r, endpoint) ==
    req[r].pc = "idle" /\ req'[r].pc # "idle" /\ req'[r].endpoint = endpoint

RetriedOutcomes == {"status", "timeout"}

AllRetried(outcomes) ==
    \A i \in 1..Len(outcomes) : outcomes[i] \in RetriedOutcomes

(* C1: whenever generate_test_case is entered for a ticket the collection   *)
(* holds a record of (and the lookup itself does not raise), it answers 200 *)
(* with that record's description and test_cases, calls neither the tracker *)
(* nor the model endpoint and schedules no store, whatever the credentials. *)
C1_CacheShortCircuit ==
    [][\A r \in DOMAIN req :
         (/\ Enters(r, "generate-test-case")
          /\ HoldsRecord(req'[r].jira_id)
          /\ ~req'[r].retrieve_raised)
         => /\ req'[r].pc = "done"
            /\ req'[r].status_code = 200
            /\ \E k \in DOMAIN collection :
                 /\ collection[k].jira_id = req'[r].jira_id
                 /\ req'[r].response =
                      TestCaseResponse(req'[r].jira_id, collection[k].description,
                                       collection[k].test_cases)
            /\ req'[r].jira_calls = 0
            /\ req'[r].ollama_calls = 0
            /\ req'[r].background = "none"]_vars

(* C2: the model endpoint is never called more than 3 times for a request,  *)
(* and a request all of whose calls failed by a timeout or an error status  *)
(* ends, after exactly 3 calls, in a generation error.                      *)
C2_RetryExhaustion ==
    \A r \in DOMAIN req :
        LET q == req[r]
        IN  /\ q.ollama_calls <= 3
            /\ (q.outcomes # <<>> /\ AllRetried(q.outcomes) /\ Len(q.outcomes) < 3)
                  => q.pc \in {"sleep", "post_ollama"}
            /\ (q.pc = "done" /\ q.outcomes # <<>> /\ AllRetried(q.outcomes))
                  => /\ q.ollama_calls = 3
                     /\ Len(q.outcomes) = 3
                     /\ q.status_code = 500
                     /\ q.error \in {"ollama_status", "ollama_timeout"}

C2_Witness ==
    \E r \in DOMAIN req :
        /\ req[r].pc = "done"
        /\ req[r].outcomes = <<"timeout", "status", "timeout">>
        /\ req[r].error = "ollama_timeout"

C4_BackoffSchedule ==
    \A r \in DOMAIN req :
        LET q == req[r]
        IN  /\ Len(q.sleeps) <= 2
            /\ \A k \in 1..Len(q.sleeps) : q.sleeps[k] = 2 * (2 ^ k)
            /\ \A k \in 2..Len(q.sleeps) : q.sleeps[k] > q.sleeps[k - 1]
            /\ q.pc = "sleep" => Len(q.sleeps) = q.ollama_calls
            /\ (q.pc # "sleep" /\ q.ollama_calls > 0)
                  => Len(q.sleeps) = q.ollama_calls - 1

C4_Witness ==
    \E r \in DOMAIN req :
        /\ req[r].pc = "done"
        /\ req[r].ollama_calls = 3
        /\ AllRetried(req[r].outcomes)
        /\ req[r].sleeps = <<4, 8>>

(* C5: the extraction returns the JSON array of the tokens from the first   *)
(* "[" through the last "]" when both exist, the first "[" lies before the  *)
(* last "]" and those tokens are valid JSON; in every other case it ends in *)
(* the parse error.                                                         *)
C5_ParseIffBracketedJson ==
    LET t == response_text
        opens == {i \in 1..Len(t) : t[i] = "["}
        closes == {i \in 1..Len(t) : t[i] = "]"}
        first == CHOOSE i \in opens : \A j \in opens : i <= j
        last == CHOOSE i \in closes : \A j \in closes : j <= i
        inOrder == opens # {} /\ closes # {} /\ first < last
        doc == json_loads(SubSeq(t, first, last))
    IN  parse_out # Pending =>
            IF inOrder /\ doc.ok
            THEN parse_out = Parsed(doc.val.items)
            ELSE parse_out = ParseError

C5_Witness ==
    /\ Len(response_text) = 5
    /\ response_text[1] = "w"
    /\ response_text[5] = "w"
    /\ parse_out = Parsed(<<JsonScalar>>)


\* whether a parsed entry is an object that lacks one of the four fields
LacksField(tc) == tc.t = "o" /\ ~(RequiredFields \subseteq tc.keys)

(* C6: a request whose parsed array holds an entry without one of test_id,  *)
(* title, steps, expected_result still answers 200 with the whole batch.    *)
C6_MissingFieldTolerated ==
    \A r \in DOMAIN req :
        LET q == req[r]
        IN  (/\ q.pc = "done"
             /\ q.endpoint = "generate-test-case"
             /\ \E i \in 1..Len(q.test_cases) : LacksField(q.test_cases[i]))
            => /\ q.status_code = 200
               /\ q.response # None
               /\ Len(q.response.test_cases) = Len(q.test_cases)

\* the failures of the Fetch step and of the Generate step
FetchErrors == {"credentials", "jira_status", "jira_exception", "description_none"}
GenerateErrors == {"ollama_status", "ollama_timeout", "ollama_exception", "parse",
                   "returned_none"}

(* C7: a request that failed in its Fetch or Generate step has scheduled no *)
(* store and runs none, and the collection changes only in the background   *)
(* task of a request that answered 200: a failed request leaves the         *)
(* collection as it was.                                                    *)
C7_NoPartialPersist ==
    [][/\ \A r \in DOMAIN req :
            (req'[r].pc = "done" /\ req'[r].error \in FetchErrors \cup GenerateErrors)
            => req'[r].background = "none"
       /\ collection' # collection
            => \E r \in DOMAIN req :
                  /\ req[r].error = NoError
                  /\ req[r].status_code = 200
                  /\ req[r].background = "scheduled"
                  /\ req'[r].background = "stored"]_vars

C7_Witness ==
    \E r \in DOMAIN req :
        /\ req[r].pc = "done"
        /\ req[r].error = "parse"
        /\ req[r].ollama_calls = 2
        /\ req[r].background = "none"
        /\ DOMAIN collection # {}

(* C8: while the store is scheduled the request has already answered 200    *)
(* with {jira_id, description, test_cases}, and the step that runs the      *)
(* store, whether the upsert succeeds or raises, leaves that answer as it   *)
(* is.                                                                      *)
C8_BestEffortPersist ==
    [][\A r \in DOMAIN req :
         req[r].background = "scheduled"
         => /\ req[r].pc = "done"
            /\ req[r].status_code = 200
            /\ req[r].response =
                 TestCaseResponse(req[r].jira_id, req[r].description, req[r].test_cases)
            /\ req'[r].background \in {"stored", "failed"}
                 => /\ req'[r].pc = "done"
                    /\ req'[r].status_code = 200
                    /\ req'[r].error = NoError
                    /\ req'[r].response = req[r].response]_vars

C8_Witness ==
    \E r \in DOMAIN req :
        /\ req[r].background = "failed"
        /\ req[r].status_code = 200
        /\ req[r].response # None
        /\ DOMAIN collection = {}

(* C9: the point id derived from a ticket is the same on every call, in     *)
(* this run of the process and in any later one: every stored point lies    *)
(* at the id that the lookup derives now for the ticket it was stored for.  *)
C9_KeyDerivationStable ==
    \A k \in DOMAIN collection : point_id(collection[k].jira_id) = k

(* C10: a get of a ticket whose upsert was the last one to succeed (the     *)
(* lookup itself not raising) answers with the description and test_cases   *)
(* stored, under the ticket stored.                                         *)
C10_RoundTrip ==
    [][\A r \in DOMAIN req :
         (/\ Enters(r, "fetch-stored-case")
          /\ last_upsert # None
          /\ last_upsert.jira_id = req'[r].jira_id
          /\ ~req'[r].retrieve_raised)
         => /\ req'[r].status_code = 200
            /\ req'[r].response =
                 TestCaseResponse(last_upsert.jira_id, last_upsert.description,
                                  last_upsert.test_cases)]_vars

\* a step in which slot r takes a request that looks a ticket up
EntersLookup(r) ==
    Enters(r, "generate-test-case") \/ Enters(r, "fetch-stored-case")

(* C11: whenever a ticket is looked up while no point lies at the id        *)
(* derived from it, retrieve_test_case returns None: it raises nothing,     *)
(* and the collection is after the lookup what it was before.               *)
C11_AbsenceIsNone ==
    [][\A r \in DOMAIN req :
         (/\ EntersLookup(r)
          /\ point_id(req'[r].jira_id) \notin DOMAIN collection)
         => /\ req'[r].stored_case = None
            /\ req'[r].error # "storage"
            /\ collection' = collection]_vars

C11_Witness ==
    \E r \in DOMAIN req :
        /\ req[r].pc = "done"
        /\ req[r].endpoint = "fetch-stored-case"
        /\ ~req[r].retrieve_raised
        /\ point_id(req[r].jira_id) \notin DOMAIN collection
        /\ DOMAIN collection # {}
        /\ req[r].stored_case = None
        /\ req[r].status_code = 404

(* C12: a lookup during which the store cannot be reached ends the request  *)
(* at once in a storage error: it is not answered as absent (404), and the  *)
(* generation does not go on to the tracker or to the model endpoint.       *)
C12_StorageErrorSurfaced ==
    \A r \in DOMAIN req :
        req[r].retrieve_raised
        => /\ req[r].pc = "done"
           /\ req[r].error = "storage"
           /\ req[r].status_code = 500
           /\ req[r].jira_calls = 0
           /\ req[r].ollama_calls = 0

(* C13 as stated: a record that the collection holds is held unchanged     *)
(* after every step: no request overwrites or regenerates it.               *)
C13_RecordImmutable ==
    [][\A k \in DOMAIN collection :
         \E k2 \in DOMAIN collection' :
            /\ collection'[k2].jira_id = collection[k].jira_id
            /\ collection'[k2].description = collection[k].description
            /\ collection'[k2].test_cases = collection[k].test_cases]_vars

(* C13 amended: the collection is written only by the background upsert of *)
(* a generate_test_case request whose own cache check found nothing, and   *)
(* that upsert puts the request's payload at the id derived from its       *)
(* ticket, over whatever point lies there; a request whose cache check     *)
(* found a record, a fetch and a search schedule no store.                 *)
C13_WrittenOnlyAfterMiss ==
    [][/\ collection' # collection
            => \E r \in DOMAIN req :
                  /\ req[r].endpoint = "generate-test-case"
                  /\ req[r].stored_case = None
                  /\ req[r].background = "scheduled"
                  /\ req'[r].background = "stored"
                  /\ collection' = UpsertPoint(collection, point_id(req[r].jira_id),
                        Payload(req[r].jira_id, req[r].description, req[r].test_cases))
       /\ \A r \in DOMAIN req :
            (req'[r].stored_case # None
               \/ req'[r].endpoint \in {"fetch-stored-case", "search-test-cases"})
            => req'[r].background = "none"]_vars

\* two requests have overwritten each other's record of one ticket
C13_Witness ==
    \E r1, r2 \in DOMAIN req :
        /\ r1 # r2
        /\ req[r1].jira_id = req[r2].jira_id
        /\ req[r1].background = "stored"
        /\ req[r2].background = "stored"
        /\ req[r1].description # req[r2].description
        /\ collection[point_id(req[r1].jira_id)].description = req[r2].description

(* C14: a generation request for a ticket without a record that fails on   *)
(* its tracker credentials (missing: fetch_jira_description raises a 400;  *)
(* or rejected: it raises the tracker's 4xx status) ends in an error of    *)
(* the 4xx class, after at most one tracker call and no call to the model  *)
(* endpoint.                                                                *)
C14_CredentialErrorKeepsClass ==
    \A r \in DOMAIN req :
        (/\ req[r].pc = "done"
         /\ ~req[r].retrieve_raised
         /\ req[r].error \in {"credentials", "jira_status"})
        => /\ req[r].status_code \in 400..499
           /\ req[r].jira_calls <= 1
           /\ req[r].ollama_calls = 0

\* the smaller of two numbers
Min(a, b) == IF a < b THEN a ELSE b

(* C15: a search over a reachable store answers 200 with, for every point  *)
(* the nearest-neighbour query yielded and in its order, that point's      *)
(* payload: min(limit, number of points) of them, so at most `limit`, none *)
(* dropped, none twice, of non-increasing similarity to the query; over an *)
(* empty collection it answers with the empty list, not with an error.     *)
C15_SearchResultShape ==
    [][\A r \in DOMAIN req :
         (Enters(r, "search-test-cases") /\ req'[r].error = NoError)
         => LET q == req'[r]
                found == q.search_result
                results == q.response.results
                sim(payload) == Similarity(EmbedQuery(q.query), PointVector(payload))
            IN  /\ q.status_code = 200
                /\ Len(results) = Len(found)
                /\ Len(results) <= q.limit
                /\ Len(results) = Min(q.limit, Cardinality(DOMAIN collection))
                /\ \A i \in 1..Len(results) : results[i] = collection[found[i]]
                /\ \A i, j \in 1..Len(found) : i # j => found[i] # found[j]
                /\ \A i, j \in 1..Len(results) :
                      i < j => sim(results[i]) >= sim(results[j])
                /\ DOMAIN collection = {} => results = <<>>]_vars

\* two points of different distance to the query found, the closer one first
C15_Witness ==
    \E r \in DOMAIN req :
        /\ req[r].pc = "done"
        /\ req[r].endpoint = "search-test-cases"
        /\ req[r].status_code = 200
        /\ req[r].limit = 2
        /\ Len(req[r].response.results) = 2
        /\ LET sim(payload) == Similarity(EmbedQuery(req[r].query), PointVector(payload))
           IN  sim(req[r].response.results[1]) > sim(req[r].response.results[2])

\* the points of the collection stored for this ticket
PointsOf(coll, jira_id) == {k \in DOMAIN coll : coll[k].jira_id = jira_id}

(* C16: when the background upsert of a request runs after that of another *)
(* request for the same ticket, both having found no record at their cache *)
(* check and both having called the model endpoint, the collection holds   *)
(* exactly one point for the ticket, with the description and test cases   *)
(* of the upsert that ran last.                                            *)
C16_LastWriteWins ==
    [][\A r1, r2 \in DOMAIN req :
         (/\ r1 # r2
          /\ req[r1].jira_id = req[r2].jira_id
          /\ req[r1].stored_case = None /\ req[r2].stored_case = None
          /\ req[r1].ollama_calls > 0 /\ req[r2].ollama_calls > 0
          /\ req[r1].background = "stored"
          /\ req[r2].background = "scheduled"
          /\ req'[r2].background = "stored")
         => /\ Cardinality(PointsOf(collection', req[r2].jira_id)) = 1
            /\ \A k \in PointsOf(collection', req[r2].jira_id) :
                  collection'[k] = Payload(req[r2].jira_id, req[r2].description,
                                           req[r2].test_cases)]_vars

\* both upserts have run, of different descriptions; the later one's is held
C16_Witness ==
    \E r1, r2 \in DOMAIN req :
        /\ r1 # r2
        /\ req[r1].jira_id = req[r2].jira_id
        /\ req[r1].stored_case = None /\ req[r2].stored_case = None
        /\ req[r1].background = "stored"
        /\ req[r2].background = "stored"
        /\ req[r1].description # req[r2].description
        /\ last_upsert = Payload(req[r2].jira_id, req[r2].description, req[r2].test_cases)
        /\ PointsOf(collection, req[r2].jira_id) = {point_id(req[r2].jira_id)}
        /\ collection[point_id(req[r2].jira_id)] = last_upsert

(* C17: a request whose model-endpoint call was answered, on whichever of   *)
(* its attempts, with status 200 and a text from which no JSON array is    *)
(* extracted is over: it failed with the parse error, that call was its    *)
(* last, and no sleep followed it (as many sleeps as calls before it).     *)
C17_ParseErrorTerminal ==
    \A r \in DOMAIN req :
        LET q == req[r]
            n == Len(q.outcomes)
        IN  (/\ n > 0
             /\ q.outcomes[n] = "200"
             /\ ExtractTestCases(q.text) = ParseError)
            => /\ n <= 3
               /\ q.pc = "done"
               /\ q.status_code = 500
               /\ q.error = "parse"
               /\ q.ollama_calls = n
               /\ Len(q.sleeps) = n - 1
               /\ q.background = "none"

\* the parse error on the second attempt, one attempt still in the budget
C17_Witness ==
    \E r \in DOMAIN req :
        /\ req[r].outcomes = <<"timeout", "200">>
        /\ ExtractTestCases(req[r].text) = ParseError
        /\ req[r].ollama_calls = 2
        /\ req[r].sleeps = <<4>>
        /\ req[r].error = "parse"

\* the point at ticket a's id was stored for another ticket of the same id
HoldsCollidingRecord(a) ==
    /\ point_id(a) \in DOMAIN collection
    /\ \E b \in Tickets :
          /\ b # a
          /\ point_id(b) = point_id(a)
          /\ collection[point_id(a)].jira_id = b

(* C18: the upsert of a ticket puts its payload at the id derived from it, *)
(* over the point of whichever ticket lies there, every other point left   *)
(* as it is; and a lookup of ticket A that finds at A's id the point of    *)
(* another ticket B of the same id returns B's payload (jira_id B), which  *)
(* both handlers answer 200 with under jira_id A, generate_test_case with  *)
(* no call to the tracker or the model endpoint and no store.              *)
C18_CollisionNotDeduplicated ==
    [][\A r \in DOMAIN req :
         /\ (req[r].background = "scheduled" /\ req'[r].background = "stored")
            => LET id == point_id(req[r].jira_id)
               IN  /\ DOMAIN collection' = DOMAIN collection \cup {id}
                   /\ collection'[id] = Payload(req[r].jira_id, req[r].description,
                                                req[r].test_cases)
                   /\ \A k \in DOMAIN collection : k # id => collection'[k] = collection[k]
         /\ (/\ EntersLookup(r)
             /\ ~req'[r].retrieve_raised
             /\ HoldsCollidingRecord(req'[r].jira_id))
            => LET a == req'[r].jira_id
                   found == collection[point_id(a)]
               IN  /\ req'[r].stored_case = found
                   /\ found.jira_id # a
                   /\ req'[r].status_code = 200
                   /\ req'[r].response =
                        TestCaseResponse(a, found.description, found.test_cases)
                   /\ req'[r].jira_calls = 0
                   /\ req'[r].ollama_calls = 0
                   /\ req'[r].background = "none"]_vars

\* a generation request for A answered with the record stored for B
C18_Witness ==
    \E r \in DOMAIN req :
        /\ req[r].pc = "done"
        /\ req[r].endpoint = "generate-test-case"
        /\ req[r].stored_case # None
        /\ req[r].stored_case.jira_id # req[r].jira_id
        /\ point_id(req[r].stored_case.jira_id) = point_id(req[r].jira_id)
        /\ req[r].status_code = 200
        /\ req[r].response.jira_id = req[r].jira_id
        /\ req[r].response.description = req[r].stored_case.description
        /\ req[r].ollama_calls = 0

(* C19: a start of the process makes at most 3 load attempts; the k-th     *)
(* failed attempt, k = 1 or 2, is followed by a wait of k * 5 and then the *)
(* next attempt; the first attempt that succeeds is the last; the third    *)
(* failure ends the start in the error, with no wait after it; and no      *)
(* VectorStore is built unless the model is loaded.                        *)
C19_ModelLoadLoop ==
    /\ boot.loads <= 3
    /\ Len(boot.waits) <= 2
    /\ \A k \in 1..Len(boot.waits) : boot.waits[k] = k * 5
    /\ boot.pc = "load" => (~boot.model /\ Len(boot.waits) = boot.loads)
    /\ boot.pc = "wait"
          => (~boot.model /\ boot.loads \in {1, 2} /\ Len(boot.waits) = boot.loads)
    /\ boot.pc = "construct" => (boot.model /\ Len(boot.waits) = boot.loads - 1)
    /\ (boot.pc = "dead" /\ boot.error = "model_load")
          => (~boot.model /\ boot.loads = 3 /\ boot.waits = <<5, 10>>)
    /\ (boot.pc = "dead" /\ boot.error # "model_load") => boot.model
    /\ boot.pc \in {"load", "wait", "construct", "dead"} => ~boot.vector_store
    /\ boot.pc = "up" => (boot.model /\ boot.vector_store)
    /\ boot.vector_store => boot.model

\* the third attempt has failed too: the start is over, after the waits 5 and 10
C19_Witness ==
    /\ boot.pc = "dead"
    /\ boot.error = "model_load"
    /\ boot.loads = 3
    /\ boot.waits = <<5, 10>>
    /\ ~boot.vector_store

(* C20: building the VectorStore creates the collection only when the      *)
(* server lists none of its name; over all the starts of the process the   *)
(* collection is created at most once; a start that finds it listed does   *)
(* not fail on its being there, and leaves its points as they are.         *)
C20_EnsureCollectionIdempotent ==
    [][/\ qdrant'.creates <= 1
       /\ qdrant'.creates # qdrant.creates
            => (~qdrant.listed /\ qdrant'.listed /\ qdrant'.creates = qdrant.creates + 1)
       /\ qdrant.listed => qdrant'.listed
       /\ (boot.pc = "construct" /\ boot'.pc # "construct" /\ qdrant.listed)
            => /\ qdrant' = qdrant
               /\ collection' = collection
               /\ boot'.pc = "dead" => boot'.error = "qdrant_unreachable"]_vars

(* the process serves, after a start that found the collection listed and  *)
(* holding a point stored by an earlier run (under another hash seed)      *)
C20_Witness ==
    /\ boot.pc = "up"
    /\ qdrant.listed
    /\ qdrant.creates = 1
    /\ \E k \in DOMAIN collection : point_id(collection[k].jira_id) # k

(* C21: the retry count of a request stays below max_retries, so the       *)
(* `while retry_count < max_retries` is never left through its condition   *)
(* and no request ends on generate_test_cases having returned None; and    *)
(* every end of a model-endpoint call either ends the request (the list    *)
(* parsed being handed on, or an error raised) or raises the retry count   *)
(* by one on the way to the next attempt.                                  *)
C21_LoopNeverFallsThrough ==
    [][\A r \in DOMAIN req :
         /\ req'[r].retry_count < max_retries
         /\ req'[r].ollama_calls <= max_retries
         /\ req'[r].error # "returned_none"
         /\ (req[r].pc = "sleep" /\ req'[r].pc \notin {"sleep", "idle"})
            => req'[r].pc = "post_ollama"
         /\ (req[r].pc = "post_ollama" /\ req'[r].pc \notin {"post_ollama", "idle"})
            => \/ /\ req'[r].pc = "done"
                  /\ req'[r].retry_count = req[r].retry_count
                  /\ \/ req'[r].status_code = 500 /\ req'[r].error # NoError
                     \/ /\ req'[r].status_code = 200
                        /\ req'[r].text # <<>>
                        /\ ExtractTestCases(req'[r].text) = Parsed(req'[r].test_cases)
               \/ /\ req'[r].pc = "sleep"
                  /\ req'[r].retry_count = req[r].retry_count + 1]_vars

\* the third attempt has failed too: the request ends in the error raised there
C21_Witness ==
    \E r \in DOMAIN req :
        /\ req[r].pc = "done"
        /\ req[r].retry_count = max_retries - 1
        /\ req[r].outcomes = <<"status", "timeout", "status">>
        /\ req[r].error = "ollama_status"
        /\ req[r].status_code = 500

\* the store of this request has been scheduled (whatever became of it)
HasScheduled(q) == q.background # "none"

(* C22 as stated: a request that has scheduled its store answers 200 with  *)
(* the description and test cases it scheduled; nothing fails it after     *)
(* the scheduling.  (Stated of the requests none of whose parsed entries   *)
(* is an object short of a field, the entries that C6 is about.)           *)
C22_ScheduledThenAnswers ==
    \A r \in DOMAIN req :
        (/\ HasScheduled(req[r])
         /\ \A i \in 1..Len(req[r].test_cases) : ~LacksField(req[r].test_cases[i]))
        => /\ req[r].status_code = 200
           /\ req[r].error = NoError
           /\ req[r].response =
                TestCaseResponse(req[r].jira_id, req[r].description, req[r].test_cases)

(* C22 amended: the store is scheduled before the response is built, and   *)
(* building it (the validation of the test cases) is the one step after    *)
(* the scheduling that can fail the request; the store of a request that   *)
(* failed there is never run.  So a store that is pending or has run is    *)
(* that of a request that answered 200 with exactly the description and    *)
(* test cases scheduled, and what a store writes is that payload.          *)
C22_StoredOnlyForAnswered ==
    [][\A r \in DOMAIN req :
         /\ req'[r].background \in {"scheduled", "stored", "failed"}
            => /\ req'[r].pc = "done"
               /\ req'[r].status_code = 200
               /\ req'[r].error = NoError
               /\ req'[r].response =
                    TestCaseResponse(req'[r].jira_id, req'[r].description,
                                     req'[r].test_cases)
         /\ req'[r].background = "dropped"
            => /\ req'[r].pc = "done"
               /\ req'[r].status_code = 500
               /\ req'[r].error = "validation"
               /\ ~ValidResponse(req'[r].description, req'[r].test_cases)
         /\ req[r].background = "dropped"
            => /\ req'[r].background \in {"dropped", "none"}
               /\ collection' = collection
         /\ (req[r].background = "scheduled" /\ req'[r].background = "stored")
            => collection'[point_id(req[r].jira_id)] =
                 Payload(req[r].response.jira_id, req[r].response.description,
                         req[r].response.test_cases)]_vars

(* the store was scheduled, the response then failed its validation: the   *)
(* request ended in the 500 and nothing is stored for its ticket           *)
C22_Witness ==
    \E r \in DOMAIN req :
        /\ req[r].pc = "done"
        /\ req[r].background = "dropped"
        /\ req[r].status_code = 500
        /\ req[r].error = "validation"
        /\ req[r].test_cases # <<>>
        /\ ~HoldsRecord(req[r].jira_id)

=============================================================================
